---- MODULE Spec2Model ----
(***************************************************************************)
(* Model of Docs/fetch_module_docs.py: the breadth-first crawl of          *)
(* fetch_module and the command wrapper main.                              *)
(*                                                                         *)
(* Strings are sequences of symbols.  The symbols are the separator "/",   *)
(* the letters of module and topic names, and the literals "documentation",*)
(* "_" and ".json", each of which is one symbol (no string of the model    *)
(* holds a fragment of one of them).                                        *)
(***************************************************************************)
EXTENDS Integers, Sequences, FiniteSets, TLC

\* ------------------------------------------------------------------ bounds
\* Largest numeric limit given on the command line.
MaxLimit == 2
\* Total number of reference entries in the documents the remote serves.
MaxEdges == 3
\* Cap on the number of fetches of one run (never reached by the program:
\* there are fewer topic paths than this).
MaxAttempts == 6
\* Total number of reference entries when the command is run twice.
MaxPairEdges == 3
\* Total number of reference entries when the order of the fetches is
\* studied (a document whose second reference was queued before it takes
\* four).
MaxOrderEdges == 4

\* ----------------------------------------------------------------- strings
SLASH == "/"

StartsWith(s, p) == Len(s) >= Len(p) /\ SubSeq(s, 1, Len(p)) = p

RECURSIVE LStrip(_, _)
LStrip(s, ch) == IF s # <<>> /\ Head(s) = ch THEN LStrip(Tail(s), ch) ELSE s

RECURSIVE RStrip(_, _)
RStrip(s, ch) ==
    IF s # <<>> /\ s[Len(s)] = ch THEN RStrip(SubSeq(s, 1, Len(s) - 1), ch) ELSE s

\* A plausible slip: str.lstrip(ch), the trailing ch stay.
StripLeftOnly(s, ch) == LStrip(s, ch)

\* str.strip(ch): every leading and every trailing ch is removed.
Strip(s, ch) == RStrip(LStrip(s, ch), ch)

\* str.replace(old, new) for one-symbol old and new.
Replace(s, old, new) == [i \in 1..Len(s) |-> IF s[i] = old THEN new ELSE s[i]]

\* A plausible slip: str.replace(old, new, 1), only the first occurrence.
ReplaceFirst(s, old, new) ==
    [i \in 1..Len(s) |->
        IF s[i] = old /\ (\A j \in 1..(i - 1) : s[j] # old) THEN new ELSE s[i]]

\* --------------------------------------------------------------- the names
\* sys.argv[0] and sys.argv[1]: the program name and the module.
Prog == <<"fetch_module_docs.py">>
Module == <<"M">>

\* f"documentation/{module}"
SeedOf(module) == <<"documentation", SLASH>> \o module
Seed == SeedOf(Module)

\* f"/documentation/{module}"
ScopePrefix(module) == <<SLASH, "documentation", SLASH>> \o module

\* The url strings found in the documents of the remote service.
UrlSeed == <<SLASH, "documentation", SLASH, "M">>
UrlX == <<SLASH, "documentation", SLASH, "M", SLASH, "X">>
UrlYSlash == <<SLASH, "documentation", SLASH, "M", SLASH, "Y", SLASH>>
UrlYBare == <<"documentation", SLASH, "M", SLASH, "Y">>
UrlSibling == <<SLASH, "documentation", SLASH, "M", "X">>
UrlOther == <<SLASH, "documentation", SLASH, "O", SLASH, "X">>
Urls == {UrlSeed, UrlX, UrlYSlash, UrlYBare, UrlSibling, UrlOther}

\* The url strings when the order of the fetches is studied: all below the
\* module, a third topic Z among them.
UrlZ == <<SLASH, "documentation", SLASH, "M", SLASH, "Z">>
OrderUrls == {UrlX, UrlYSlash, UrlZ}

PathX == <<"documentation", SLASH, "M", SLASH, "X">>
PathY == <<"documentation", SLASH, "M", SLASH, "Y">>
PathSibling == <<"documentation", SLASH, "M", "X">>
PathOther == <<"documentation", SLASH, "O", SLASH, "X">>
PathZ == <<"documentation", SLASH, "M", SLASH, "Z">>
AllPaths == {Seed} \cup {Strip(u, SLASH) : u \in Urls \cup OrderUrls}

\* ------------------------------------------------------------ JSON values
\* The value of ref["url"]: missing, a non-string (a number) or a string.
UrlMissing == [t |-> "missing", s |-> <<>>]
UrlNumber == [t |-> "number", s |-> <<>>]
UrlStr(u) == [t |-> "str", s |-> u]

\* A value of the references mapping: not a mapping, or a mapping.
RefScalar == [isDict |-> FALSE, url |-> UrlMissing]
RefTo(u) == [isDict |-> TRUE, url |-> UrlStr(u)]
RefValues ==
    {RefScalar, [isDict |-> TRUE, url |-> UrlMissing], [isDict |-> TRUE, url |-> UrlNumber]}
        \cup {RefTo(u) : u \in Urls}

\* The reference sequences of at most n entries drawn from vals.
RefSeqs(vals, n) == UNION {[1..k -> vals] : k \in 0..n}

\* A document: its top-level value is a mapping or not; its "references"
\* is absent, a mapping (values in document order), or some other value.
DocTopList == [top |-> "list", refs |-> "absent", vals |-> <<>>]
DocNoRefs == [top |-> "dict", refs |-> "absent", vals |-> <<>>]
DocRefsList == [top |-> "dict", refs |-> "list", vals |-> <<>>]
DocRefs(vals) == [top |-> "dict", refs |-> "dict", vals |-> vals]
Documents(vals, n) ==
    {DocTopList, DocNoRefs, DocRefsList} \cup {DocRefs(v) : v \in RefSeqs(vals, n)}

\* What urlopen + json.load give for a path.
Unknown == [kind |-> "unknown", data |-> DocNoRefs]
NotFound == [kind |-> "notfound", data |-> DocNoRefs]
TransportError == [kind |-> "error", data |-> DocNoRefs]
Ok(doc) == [kind |-> "ok", data |-> doc]
Responses(vals, n) == {NotFound, TransportError} \cup {Ok(d) : d \in Documents(vals, n)}

\* -------------------------------------------------------------- arguments
\* The limit is None or an int: <<>> or <<n>>.
None == <<>>
Digits == <<"0", "1", "2", "3", "4", "5", "6", "7", "8", "9">>
DigitValue(c) == CHOOSE d \in 0..9 : Digits[d + 1] = c
IsDigit(c) == \E d \in 0..9 : Digits[d + 1] = c

\* int(s) for the one-digit decimal strings of the model, signed or not;
\* anything else raises ValueError.
IsInt(s) ==
    \/ Len(s) = 1 /\ IsDigit(s[1])
    \/ Len(s) = 2 /\ s[1] = "-" /\ IsDigit(s[2])
Int_(s) == IF Len(s) = 1 THEN DigitValue(s[1]) ELSE 0 - DigitValue(s[2])

LimitArgs == {<<Digits[n + 1]>> : n \in 0..MaxLimit} \cup {<<"-", "1">>, <<"x">>}
Argvs ==
    {<<Prog>>, <<Prog, Module>>} \cup {<<Prog, Module, l>> : l \in LimitArgs}
        \cup {<<Prog, Module, <<"1">>, <<"1">>>>}


\* ------------------------------------------------------------------ state
VARIABLES
    pc,           \* "main", "loop" (at the while test) or "exited"
    argv,         \* sys.argv
    limit,        \* fetch_module's limit
    queue,        \* the frontier
    visited,      \* the visited set
    files,        \* dest_root: a set of <<file name, content>>
    exit,         \* the exit status of the process: <<>> while it runs
    stop,         \* how the run ended: "usage", "exception", "empty", "limit"
    remote,       \* the remote service: path -> response, Unknown until asked
    attempts,     \* the paths given to urlopen, in order
    storeFailed,  \* the paths whose open/json.dump raised
    out,          \* the lines printed, in order
    disk,         \* dest_root: path -> how storing its file goes, "unknown" until tried
    universe,     \* what the remote can serve: its reference values and their number
    run,          \* 1 in the first run of the command, 2 in a second run
    prev,         \* what the first run left behind, for a second run
    sPc,          \* process_directory: "idle", "start", "loop", "returned", "raised"
    readme,       \* README.md: whether it exists, and the names it lists
    rawDir,       \* the raw directory: whether it exists, and its names
    destDir,      \* the names in the essentials directory
    todo,         \* the names the for loop has still to take, in order
    copied,       \* process_directory's copied
    missing,      \* process_directory's missing
    result,       \* what process_directory returned: <<>> before it returns
    log           \* what copy_file returned for each name, in order

crawlVars ==
    <<pc, argv, limit, queue, visited, files, exit, stop, remote, attempts, storeFailed,
      out, disk, universe, run, prev>>

syncVars == <<sPc, readme, rawDir, destDir, todo, copied, missing, result, log>>

\* What no step of a crawl changes.
others == <<universe, run, prev, syncVars>>

vars == <<crawlVars, syncVars>>

\* process_directory is not running.
SyncIdle ==
    /\ sPc = "idle"
    /\ readme = [exists |-> FALSE, names |-> {}]
    /\ rawDir = [exists |-> FALSE, names |-> {}]
    /\ destDir = {}
    /\ todo = <<>>
    /\ copied = 0
    /\ missing = <<>>
    /\ result = <<>>
    /\ log = <<>>

\* No first run yet.
NoPrev ==
    [limit |-> None, attempts |-> <<>>, visited |-> {}, files |-> {}, stop |-> "none",
     fresh |-> FALSE]

\* The lines print writes.
UsageLine == [kind |-> "Usage", path |-> <<>>]
LimitLine == [kind |-> "Reached limit", path |-> <<>>]
SavedLine(path) == [kind |-> "Saved", path |-> path]
HTTPErrorLine(path) == [kind |-> "HTTPError", path |-> path]
ErrorLine == [kind |-> "Error", path |-> <<>>]

\* The state before main runs, the remote drawing its documents from u.
InitOver(u) ==
    /\ pc = "main"
    /\ argv \in Argvs
    /\ limit = None
    /\ queue = <<>>
    /\ visited = {}
    /\ files = {}
    /\ exit = <<>>
    /\ stop = "none"
    /\ remote = [p \in AllPaths |-> Unknown]
    /\ attempts = <<>>
    /\ storeFailed = {}
    /\ out = <<>>
    /\ disk = [p \in AllPaths |-> "unknown"]
    /\ universe = u
    /\ run = 1
    /\ prev = NoPrev
    /\ SyncIdle

Init == InitOver([refs |-> RefValues, edges |-> MaxEdges])

\* ------------------------------------------------------------ fetch_module
\* A plausible slip: the visited test is dropped.
AlreadyVisitedNever(path, vis) == FALSE

\* if path in visited
AlreadyVisited(path, vis) == path \in vis

\* A plausible slip: the budget test is >= instead of >.
OverLimitAtLimit(lim, vis) == lim # None /\ Cardinality(vis) >= lim[1]

\* A plausible slip: the budget test is off by one.
OverLimitOffByOne(lim, vis) == lim # None /\ Cardinality(vis) > lim[1] + 1

\* limit is not None and len(visited) > limit
OverLimit(lim, vis) == lim # None /\ Cardinality(vis) > lim[1]

\* What open(..., "w") and json.dump never leave: content behind content.
Doubled == [top |-> "doubled", refs |-> "absent", vals |-> <<>>]

\* A plausible slip: the file is opened with "a", so a file that exists
\* is appended to instead of overwritten.
WrittenAppending(fs, name, content) ==
    IF \E f \in fs : f[1] = name
    THEN {f \in fs : f[1] # name} \cup {<<name, Doubled>>}
    ELSE fs \cup {<<name, content>>}

\* A plausible slip: only the first separator is replaced.
FileNameFirstOnly(path) == ReplaceFirst(path, SLASH, "_") \o <<".json">>

\* path.replace("/", "_") + ".json"
FileName(path) == Replace(path, SLASH, "_") \o <<".json">>

\* open(os.path.join(dest_root, file_name), "w"); json.dump(data, handle):
\* the file of that name is created or overwritten.
Written(fs, name, content) == {f \in fs : f[1] # name} \cup {<<name, content>>}

\* What a store that raises leaves behind: nothing new if open raised, a
\* truncated file if the write raised.
Truncated == [top |-> "truncated", refs |-> "absent", vals |-> <<>>]
AfterFailedStore(fs, name, o) == IF o = "open" THEN fs ELSE Written(fs, name, Truncated)

\* How storing the file of path goes: "ok", "open" (open raises) or "write"
\* (json.dump raises).  dest_root behaves the same each time it is asked.
StoreOutcomes(path) ==
    IF disk[path] # "unknown" THEN {disk[path]} ELSE {"ok", "open", "write"}

\* A plausible slip: the except clauses print nothing.
FailureLinesSilent(r, path) == <<>>

\* print(f"HTTPError {err.code} {url}") or print(f"Error {exc}")
FailureLines(r, path) ==
    IF r.kind = "notfound" THEN <<HTTPErrorLine(path)>> ELSE <<ErrorLine>>

\* ref.get("url") or "": a missing url reads as the empty string.
UrlOrEmpty(ref) == IF ref.url.t = "missing" THEN UrlStr(<<>>) ELSE ref.url

\* isinstance(ref_url, str) and ref_url.startswith(f"/documentation/{module}")
Followed(ref_url, module) ==
    ref_url.t = "str" /\ StartsWith(ref_url.s, ScopePrefix(module))

\* A plausible slip: the references are taken last to first.
RECURSIVE AppendedReversed(_, _)
AppendedReversed(vals, module) ==
    IF vals = <<>> THEN <<>>
    ELSE LET ref == Head(vals)
             rest == AppendedReversed(Tail(vals), module)
         IN  IF ref.isDict /\ ref.url.t = "str" /\ StartsWith(ref.url.s, ScopePrefix(module))
             THEN rest \o <<Strip(ref.url.s, SLASH)>>
             ELSE rest

\* The for loop over references.values(): the paths appended to the queue.
RECURSIVE Appended(_, _)
Appended(vals, module) ==
    IF vals = <<>> THEN <<>>
    ELSE LET ref == Head(vals)
             rest == Appended(Tail(vals), module)
         IN  IF ~ref.isDict THEN rest
             ELSE IF Followed(UrlOrEmpty(ref), module)
                  THEN <<Strip(UrlOrEmpty(ref).s, SLASH)>> \o rest
                  ELSE rest

\* data.get("references", {}).values() raises AttributeError when data is
\* not a mapping or its "references" is not one.
References(data) == IF data.refs = "absent" THEN <<>> ELSE data.vals
RaisesOnReferences(data) == data.top # "dict" \/ data.refs = "list"

\* The number of reference entries the remote has served so far.
RECURSIVE EdgesIn(_)
EdgesIn(paths) ==
    IF paths = {} THEN 0
    ELSE LET p == CHOOSE q \in paths : TRUE
         IN  Len(remote[p].data.vals) + EdgesIn(paths \ {p})
EdgesUsed == EdgesIn(AllPaths)

\* urlopen(url) + json.load: what the remote answers for path.  The remote
\* does not change during a run: a path asked twice gets the same answer.
Served(path) ==
    IF remote[path] # Unknown THEN {remote[path]}
    ELSE Responses(universe.refs, universe.edges - EdgesUsed)

\* The head of the queue is popped, is not in visited, is added to it, and
\* the limit is not exceeded: the iteration reaches the fetch.
ReachesFetch ==
    /\ pc = "loop"
    /\ queue # <<>>
    /\ ~AlreadyVisited(Head(queue), visited)
    /\ ~OverLimit(limit, visited \cup {Head(queue)})
    /\ Len(attempts) < MaxAttempts

\* def fetch_module(...) -> None, with no return statement: whenever it
\* returns, it returns None.
ReturnValue == None

\* while queue: the queue is empty, fetch_module and main return.
LoopExit ==
    /\ pc = "loop"
    /\ queue = <<>>
    /\ pc' = "exited"
    /\ exit' = <<0>>
    /\ stop' = "empty"
    /\ UNCHANGED <<argv, limit, queue, visited, files, remote, attempts, storeFailed>>
    /\ UNCHANGED <<out, disk, others>>

\* path = queue.pop(0); if path in visited: continue
SkipVisited ==
    /\ pc = "loop"
    /\ queue # <<>>
    /\ AlreadyVisited(Head(queue), visited)
    /\ queue' = Tail(queue)
    /\ UNCHANGED <<pc, argv, limit, visited, files, exit, stop, remote, attempts, storeFailed>>
    /\ UNCHANGED <<out, disk, others>>

\* visited.add(path); the limit is exceeded: break, and the process ends.
LimitBreak ==
    /\ pc = "loop"
    /\ queue # <<>>
    /\ ~AlreadyVisited(Head(queue), visited)
    /\ OverLimit(limit, visited \cup {Head(queue)})
    /\ queue' = Tail(queue)
    /\ visited' = visited \cup {Head(queue)}
    /\ pc' = "exited"
    /\ exit' = <<0>>
    /\ stop' = "limit"
    /\ out' = Append(out, LimitLine)
    /\ UNCHANGED <<argv, limit, files, remote, attempts, storeFailed, disk, others>>

\* A plausible slip: the except clause re-raises instead of continuing.
FetchFailedAborts ==
    /\ ReachesFetch
    /\ \E r \in Served(Head(queue)) :
          /\ r.kind \in {"notfound", "error"}
          /\ remote' = [remote EXCEPT ![Head(queue)] = r]
          /\ out' = out \o FailureLines(r, Head(queue))
    /\ queue' = Tail(queue)
    /\ visited' = visited \cup {Head(queue)}
    /\ attempts' = Append(attempts, Head(queue))
    /\ pc' = "exited"
    /\ exit' = <<1>>
    /\ stop' = "exception"
    /\ UNCHANGED <<argv, limit, files, storeFailed, disk, others>>

\* A plausible slip: visited.add(path) comes after the fetch, so a path
\* whose fetch failed is not marked.
FetchFailedUnmarked ==
    /\ ReachesFetch
    /\ \E r \in Served(Head(queue)) :
          /\ r.kind \in {"notfound", "error"}
          /\ remote' = [remote EXCEPT ![Head(queue)] = r]
          /\ out' = out \o FailureLines(r, Head(queue))
    /\ queue' = Tail(queue)
    /\ attempts' = Append(attempts, Head(queue))
    /\ UNCHANGED <<pc, argv, limit, visited, files, exit, stop, storeFailed, disk, others>>

\* A plausible slip: a path whose fetch failed is put back for a retry.
FetchFailedRequeues ==
    /\ ReachesFetch
    /\ \E r \in Served(Head(queue)) :
          /\ r.kind \in {"notfound", "error"}
          /\ remote' = [remote EXCEPT ![Head(queue)] = r]
          /\ out' = out \o FailureLines(r, Head(queue))
    /\ queue' = Append(Tail(queue), Head(queue))
    /\ attempts' = Append(attempts, Head(queue))
    /\ UNCHANGED <<pc, argv, limit, visited, files, exit, stop, storeFailed, disk, others>>

\* urlopen raises HTTPError, or urlopen/json.load raise another Exception:
\* a line is printed and the loop continues.
FetchFailed ==
    /\ ReachesFetch
    /\ \E r \in Served(Head(queue)) :
          /\ r.kind \in {"notfound", "error"}
          /\ remote' = [remote EXCEPT ![Head(queue)] = r]
          /\ out' = out \o FailureLines(r, Head(queue))
    /\ queue' = Tail(queue)
    /\ visited' = visited \cup {Head(queue)}
    /\ attempts' = Append(attempts, Head(queue))
    /\ UNCHANGED <<pc, argv, limit, files, exit, stop, storeFailed, disk, others>>

\* The fetch succeeds; open or json.dump raises OSError, which nothing
\* catches: the process ends with a traceback.
StoreFailed ==
    /\ ReachesFetch
    /\ \E r \in Served(Head(queue)) :
          /\ r.kind = "ok"
          /\ remote' = [remote EXCEPT ![Head(queue)] = r]
    /\ \E o \in StoreOutcomes(Head(queue)) \ {"ok"} :
          /\ disk' = [disk EXCEPT ![Head(queue)] = o]
          /\ files' = AfterFailedStore(files, FileName(Head(queue)), o)
    /\ storeFailed' = storeFailed \cup {Head(queue)}
    /\ queue' = Tail(queue)
    /\ visited' = visited \cup {Head(queue)}
    /\ attempts' = Append(attempts, Head(queue))
    /\ pc' = "exited"
    /\ exit' = <<1>>
    /\ stop' = "exception"
    /\ UNCHANGED <<argv, limit, out, others>>

\* The fetch succeeds and the document is stored; data.get or
\* references.values raises AttributeError, which nothing catches.
ReferencesRaised ==
    /\ ReachesFetch
    /\ \E r \in Served(Head(queue)) :
          /\ r.kind = "ok"
          /\ RaisesOnReferences(r.data)
          /\ remote' = [remote EXCEPT ![Head(queue)] = r]
          /\ files' = Written(files, FileName(Head(queue)), r.data)
          /\ "ok" \in StoreOutcomes(Head(queue))
          /\ disk' = [disk EXCEPT ![Head(queue)] = "ok"]
          /\ out' = Append(out, SavedLine(Head(queue)))
    /\ queue' = Tail(queue)
    /\ visited' = visited \cup {Head(queue)}
    /\ attempts' = Append(attempts, Head(queue))
    /\ pc' = "exited"
    /\ exit' = <<1>>
    /\ stop' = "exception"
    /\ UNCHANGED <<argv, limit, storeFailed, others>>

\* The fetch succeeds, the document is stored and its accepted references
\* are appended to the queue.
Saved ==
    /\ ReachesFetch
    /\ \E r \in Served(Head(queue)) :
          /\ r.kind = "ok"
          /\ ~RaisesOnReferences(r.data)
          /\ remote' = [remote EXCEPT ![Head(queue)] = r]
          /\ files' = Written(files, FileName(Head(queue)), r.data)
          /\ "ok" \in StoreOutcomes(Head(queue))
          /\ disk' = [disk EXCEPT ![Head(queue)] = "ok"]
          /\ out' = Append(out, SavedLine(Head(queue)))
          /\ queue' = Tail(queue) \o Appended(References(r.data), Module)
    /\ visited' = visited \cup {Head(queue)}
    /\ attempts' = Append(attempts, Head(queue))
    /\ UNCHANGED <<pc, argv, limit, exit, stop, storeFailed, others>>

\* --------------------------------------------------------------------- main
\* len(sys.argv) not in {2, 3}: the usage line and SystemExit(1).
MainUsage ==
    /\ pc = "main"
    /\ Len(argv) \notin {2, 3}
    /\ pc' = "exited"
    /\ exit' = <<1>>
    /\ stop' = "usage"
    /\ out' = Append(out, UsageLine)
    /\ UNCHANGED <<argv, limit, queue, visited, files, remote, attempts, storeFailed>>
    /\ UNCHANGED <<disk, others>>

\* int(sys.argv[2]) raises ValueError, which nothing catches.
MainBadLimit ==
    /\ pc = "main"
    /\ Len(argv) = 3
    /\ ~IsInt(argv[3])
    /\ pc' = "exited"
    /\ exit' = <<1>>
    /\ stop' = "exception"
    /\ UNCHANGED <<argv, limit, queue, visited, files, remote, attempts, storeFailed>>
    /\ UNCHANGED <<out, disk, others>>

\* The arguments are read and fetch_module is entered; os.makedirs either
\* raises OSError (uncaught) or the queue is set to the seed path.
MainCrawl ==
    /\ pc = "main"
    /\ Len(argv) \in {2, 3}
    /\ Len(argv) = 3 => IsInt(argv[3])
    /\ limit' = IF Len(argv) = 3 THEN <<Int_(argv[3])>> ELSE None
    /\ \/ /\ pc' = "loop"
          /\ queue' = <<SeedOf(argv[2])>>
          /\ UNCHANGED <<exit, stop>>
       \/ /\ pc' = "exited"
          /\ exit' = <<1>>
          /\ stop' = "exception"
          /\ UNCHANGED queue
    /\ UNCHANGED <<argv, visited, files, remote, attempts, storeFailed, out, disk, others>>

Next ==
    \/ MainUsage
    \/ MainBadLimit
    \/ MainCrawl
    \/ LoopExit
    \/ SkipVisited
    \/ LimitBreak
    \/ FetchFailed
    \/ StoreFailed
    \/ ReferencesRaised
    \/ Saved

Spec == Init /\ [][Next]_vars

\* ------------------------------------------------- the order of the fetches
OrderRefValues == {RefTo(u) : u \in OrderUrls}

OrderInit == InitOver([refs |-> OrderRefValues, edges |-> MaxOrderEdges])

OrderSpec == OrderInit /\ [][Next]_vars

\* ------------------------------------------------------- the command, twice
\* The reference values of the documents when the command is run twice.
PairRefValues == {RefTo(UrlSeed), RefTo(UrlX), RefTo(UrlYSlash), RefTo(UrlOther), RefScalar}

\* The command is run a second time after a first run that entered the
\* crawl loop, with the same limit or with none, over the destination the
\* first run left or over an emptied one.  The arguments are well formed
\* and os.makedirs succeeds, as in the first run; the remote and the
\* behaviour of the destination are those of the first run.
Rerun ==
    /\ pc = "exited"
    /\ run = 1
    /\ visited # {}
    /\ run' = 2
    /\ \E fresh \in BOOLEAN, lim \in {limit, None} :
          /\ prev' = [limit |-> limit, attempts |-> attempts, visited |-> visited,
                      files |-> files, stop |-> stop, fresh |-> fresh]
          /\ files' = IF fresh THEN {} ELSE files
          /\ limit' = lim
          /\ argv' = IF lim = None THEN <<argv[1], argv[2]>> ELSE argv
    /\ pc' = "loop"
    /\ queue' = <<SeedOf(argv[2])>>
    /\ visited' = {}
    /\ attempts' = <<>>
    /\ storeFailed' = {}
    /\ out' = <<>>
    /\ exit' = <<>>
    /\ stop' = "none"
    /\ UNCHANGED <<remote, disk, universe, syncVars>>

PairInit == InitOver([refs |-> PairRefValues, edges |-> MaxPairEdges])

PairNext == Next \/ Rerun

PairSpec == PairInit /\ [][PairNext]_vars

\* The program is sequential and runs until it ends: a step that can be
\* taken is taken.
FairSpec == Spec /\ WF_vars(Next)

\* Every run ends.
Terminates == <>(pc = "exited")

TypeOK ==
    /\ pc \in {"main", "loop", "exited"}
    /\ exit \in {<<>>, <<0>>, <<1>>}
    /\ visited \subseteq AllPaths

\* ------------------------------------------- Docs/_populate_essentials.py
\* File names, character by character.
DotJson == <<".", "j", "s", "o", "n">>
NameA == <<"a">> \o DotJson
NameAB == <<"a", "b">> \o DotJson
NameAC == <<"a", "c">> \o DotJson
NameC == <<"c">> \o DotJson
NameBare == <<"a">>

\* The names README.md may list (each matches PATTERN) and the names the
\* raw directory may hold.
ManifestNames == {NameA, NameAB, NameC}
RawNames == {NameA, NameAB, NameAC, NameBare}

\* The code points of the characters, for sorted().
Code(c) ==
    CASE c = "." -> 46 [] c = "a" -> 97 [] c = "b" -> 98 [] c = "c" -> 99
      [] c = "j" -> 106 [] c = "n" -> 110 [] c = "o" -> 111 [] c = "s" -> 115

\* s < t as Python compares str.
RECURSIVE StrLess(_, _)
StrLess(s, t) ==
    IF t = <<>> THEN FALSE
    ELSE IF s = <<>> THEN TRUE
    ELSE IF Head(s) # Head(t) THEN Code(Head(s)) < Code(Head(t))
    ELSE StrLess(Tail(s), Tail(t))

\* sorted(filenames)
RECURSIVE Sorted(_)
Sorted(S) ==
    IF S = {} THEN <<>>
    ELSE LET m == CHOOSE x \in S : \A y \in S \ {x} : StrLess(x, y)
         IN  <<m>> \o Sorted(S \ {m})

\* target_name[:-5]
Base(target_name) == SubSeq(target_name, 1, Len(target_name) - 5)

\* [name for name in os.listdir(raw_dir) if name.startswith(base)]
Candidates(raw, target_name) == {name \in raw.names : StartsWith(name, Base(target_name))}

\* A plausible slip: candidates.sort(key=len) is left out, so any candidate
\* may come first.
CopyFileUnsorted(raw, target_name) ==
    IF raw.exists /\ target_name \in raw.names
    THEN {[copied |-> target_name, missing |-> None]}
    ELSE IF ~raw.exists \/ Candidates(raw, target_name) = {}
    THEN {[copied |-> None, missing |-> target_name]}
    ELSE {[copied |-> c, missing |-> None] : c \in Candidates(raw, target_name)}

\* copy_file: what it may return.  os.listdir gives the names in any
\* order and the sort by length keeps that order among equal lengths, so
\* candidates[0] is any candidate of least length.
CopyFile(raw, target_name) ==
    IF raw.exists /\ target_name \in raw.names
    THEN {[copied |-> target_name, missing |-> None]}
    ELSE IF ~raw.exists \/ Candidates(raw, target_name) = {}
    THEN {[copied |-> None, missing |-> target_name]}
    ELSE {[copied |-> c, missing |-> None] :
            c \in {d \in Candidates(raw, target_name) :
                     \A x \in Candidates(raw, target_name) : Len(d) <= Len(x)}}

\* README.md is absent, or lists no name: return 0, [].
ProcessNothing ==
    /\ sPc = "start"
    /\ ~readme.exists \/ readme.names = {}
    /\ sPc' = "returned"
    /\ result' = <<0, <<>>>>
    /\ UNCHANGED <<readme, rawDir, destDir, todo, copied, missing, log, crawlVars>>

\* The names are read; os.makedirs(dest_dir) succeeds, or raises OSError.
ProcessBegin ==
    /\ sPc = "start"
    /\ readme.exists
    /\ readme.names # {}
    /\ \/ /\ sPc' = "loop"
          /\ todo' = Sorted(readme.names)
       \/ /\ sPc' = "raised"
          /\ UNCHANGED todo
    /\ UNCHANGED <<readme, rawDir, destDir, copied, missing, result, log, crawlVars>>

\* One pass of the for loop: copy_file returns, and the name is counted.
CopyOne ==
    /\ sPc = "loop"
    /\ todo # <<>>
    /\ \E r \in CopyFile(rawDir, Head(todo)) :
          /\ destDir' = IF r.copied # None THEN destDir \cup {r.copied} ELSE destDir
          /\ copied' = IF r.copied # None THEN copied + 1 ELSE copied
          /\ missing' = IF r.copied = None /\ r.missing # None
                         THEN Append(missing, r.missing) ELSE missing
          /\ log' = Append(log, [name |-> Head(todo), copied |-> r.copied,
                                  missing |-> r.missing])
    /\ todo' = Tail(todo)
    /\ UNCHANGED <<sPc, readme, rawDir, result, crawlVars>>

\* shutil.copy2 raises OSError inside copy_file, which nothing catches.
CopyRaised ==
    /\ sPc = "loop"
    /\ todo # <<>>
    /\ \E r \in CopyFile(rawDir, Head(todo)) : r.copied # None
    /\ sPc' = "raised"
    /\ UNCHANGED <<readme, rawDir, destDir, todo, copied, missing, result, log, crawlVars>>

\* The for loop is over: return copied, missing.
ProcessReturn ==
    /\ sPc = "loop"
    /\ todo = <<>>
    /\ sPc' = "returned"
    /\ result' = <<copied, missing>>
    /\ UNCHANGED <<readme, rawDir, destDir, todo, copied, missing, log, crawlVars>>

\* process_directory is entered for some directory; no crawl is running.
SyncInit ==
    /\ sPc = "start"
    /\ readme \in [exists : BOOLEAN, names : SUBSET ManifestNames]
    /\ ~readme.exists => readme.names = {}
    /\ rawDir \in [exists : BOOLEAN, names : SUBSET RawNames]
    /\ ~rawDir.exists => rawDir.names = {}
    /\ destDir = {}
    /\ todo = <<>>
    /\ copied = 0
    /\ missing = <<>>
    /\ result = <<>>
    /\ log = <<>>
    /\ pc = "idle"
    /\ argv = <<>>
    /\ limit = None
    /\ queue = <<>>
    /\ visited = {}
    /\ files = {}
    /\ exit = <<>>
    /\ stop = "none"
    /\ remote = [p \in AllPaths |-> Unknown]
    /\ attempts = <<>>
    /\ storeFailed = {}
    /\ out = <<>>
    /\ disk = [p \in AllPaths |-> "unknown"]
    /\ universe = [refs |-> {}, edges |-> 0]
    /\ run = 1
    /\ prev = NoPrev

SyncNext ==
    \/ ProcessNothing
    \/ ProcessBegin
    \/ CopyOne
    \/ CopyRaised
    \/ ProcessReturn

SyncSpec == SyncInit /\ [][SyncNext]_vars

\* ------------------------------------------------- notions of the claims
Range(seq) == {seq[i] : i \in DOMAIN seq}

\* The paths whose fetch has succeeded so far.
OkPaths == {p \in Range(attempts) : remote[p].kind = "ok"}

\* A path is documentation/<module> itself or lies below it.
InNamespace(path, module) ==
    path = SeedOf(module) \/ StartsWith(path, SeedOf(module) \o <<SLASH>>)

\* The file name of a topic path: each separator becomes an underscore,
\* ".json" is appended.
DerivedName(path) ==
    [i \in 1..(Len(path) + 1) |->
        IF i = Len(path) + 1 THEN ".json" ELSE IF path[i] = SLASH THEN "_" ELSE path[i]]

\* A usage error: wrong number of arguments or a non-numeric limit.
UsageError == Len(argv) \notin {2, 3} \/ (Len(argv) = 3 /\ ~IsInt(argv[3]))

\* A document of unexpected shape.
Malformed(data) ==
    \/ data.top # "dict"
    \/ data.refs = "list"
    \/ \E i \in DOMAIN data.vals : ~data.vals[i].isDict \/ data.vals[i].url.t # "str"

\* The in-scope references of the document fetched for p, as topic paths.
InScopeRefs(p) ==
    IF remote[p].kind # "ok" THEN {}
    ELSE {Strip(remote[p].data.vals[i].url.s, SLASH) :
            i \in {j \in DOMAIN remote[p].data.vals :
                     /\ remote[p].data.vals[j].isDict
                     /\ remote[p].data.vals[j].url.t = "str"
                     /\ InNamespace(Strip(remote[p].data.vals[j].url.s, SLASH), Module)}}

\* The least set that holds the seed and is closed under InScopeRefs.
RECURSIVE ClosedFrom(_)
ClosedFrom(S) ==
    LET T == S \cup UNION {InScopeRefs(p) : p \in S}
    IN  IF T = S THEN S ELSE ClosedFrom(T)
Reachable == ClosedFrom({Seed})

\* ------------------------------------------------------------------ claims

\* C1: no topic path is fetched twice in a run, whatever the graph and the
\* fetch outcomes; in the cycle seed -> X -> seed with both fetches
\* succeeding, the fetches of the run are exactly the seed, then X.
FetchedAtMostOnce ==
    /\ \A i, j \in DOMAIN attempts : attempts[i] = attempts[j] => i = j
    /\ (/\ remote[Seed] = Ok(DocRefs(<<RefTo(UrlX)>>))
        /\ remote[PathX] = Ok(DocRefs(<<RefTo(UrlSeed)>>)))
       => attempts = <<Seed, PathX>>

\* C1 witness: the two-node cycle was crawled to the end of the queue.
CycleCrawled ==
    /\ stop = "empty"
    /\ remote[Seed] = Ok(DocRefs(<<RefTo(UrlX)>>))
    /\ remote[PathX] = Ok(DocRefs(<<RefTo(UrlSeed)>>))
    /\ attempts = <<Seed, PathX>>

\* C2: every path fetched or queued is documentation/<module> or a path
\* below it; a reference into another module, also one whose name only
\* starts with the module's name, is never enqueued and never fetched.
ScopeContainment ==
    /\ \A i \in DOMAIN attempts : InNamespace(attempts[i], Module)
    /\ \A i \in DOMAIN queue : InNamespace(queue[i], Module)

\* C3: with a limit L >= 0 at most L fetches are attempted and at most
\* L + 1 paths are visited, and once more than L paths are visited the
\* run has stopped on the limit (so nothing still queued is fetched).
VisitBudget ==
    (limit # None /\ limit[1] >= 0) =>
        /\ Len(attempts) <= limit[1]
        /\ Cardinality(visited) <= limit[1] + 1
        /\ Cardinality(visited) > limit[1] => (pc = "exited" /\ stop = "limit")

\* C3 witness: limit 1, the seed references X and Y; the run stopped on
\* the limit with only the seed fetched and Y still queued.
BudgetStopped ==
    /\ limit = <<1>>
    /\ stop = "limit"
    /\ remote[Seed] = Ok(DocRefs(<<RefTo(UrlX), RefTo(UrlYSlash)>>))
    /\ attempts = <<Seed>>
    /\ visited = {Seed, PathX}
    /\ queue = <<PathY>>

\* C4: a step whose fetch ends in NotFound or TransportError leaves the
\* run going: the loop continues with the rest of the queue, unchanged.
FetchFailureIsolated ==
    [][(attempts' # attempts /\ remote'[Head(queue)].kind \in {"notfound", "error"})
          => (pc' = "loop" /\ exit' = <<>> /\ queue' = Tail(queue))]_vars

\* C4 witness: the second fetch of the run failed and the entry queued
\* behind it was fetched afterwards.
FetchedAfterFailure ==
    /\ Len(attempts) = 3
    /\ remote[attempts[2]].kind = "notfound"
    /\ remote[attempts[3]].kind = "ok"

\* C5: a step in which storing the fetched document fails leaves the run
\* going: the document's references are enqueued and the loop continues.
StoreFailureIsolated ==
    [][(storeFailed' # storeFailed)
          => /\ pc' = "loop"
             /\ queue' = Tail(queue)
                    \o Appended(References(remote'[Head(queue)].data), Module)]_vars

\* C6: a step that fetches a document of unexpected shape leaves the run
\* going (unless its store failed).
MalformedIsolated ==
    [][(/\ attempts' # attempts
        /\ storeFailed' = storeFailed
        /\ remote'[Head(queue)].kind = "ok"
        /\ Malformed(remote'[Head(queue)].data))
          => pc' = "loop"]_vars

\* C7: when the crawl has stopped, the queue is empty or the visit budget
\* is exceeded.
StopsEmptyOrOverBudget ==
    pc = "exited" =>
        (queue = <<>> \/ (limit # None /\ Cardinality(visited) > limit[1]))

\* C8: when a run with no limit has ended, the fetched paths are exactly
\* the paths reachable from the seed through the in-scope references of
\* the successfully fetched documents; if every fetch succeeded, each of
\* them is stored.
TraversalExact ==
    (pc = "exited" /\ limit = None /\ visited # {}) =>
        /\ Range(attempts) = Reachable
        /\ (\A p \in Range(attempts) : remote[p].kind = "ok")
              => \A p \in Reachable : \E f \in files : f[1] = DerivedName(p)

\* C9: while no store has failed, the stored file names are exactly the
\* names derived from the paths fetched successfully so far; a seed whose
\* document holds no reference ends with one fetch and one file.
PersistedLayout ==
    storeFailed = {} =>
        /\ {f[1] : f \in files} = {DerivedName(p) : p \in OkPaths}
        /\ (pc = "exited" /\ remote[Seed].kind = "ok" /\ remote[Seed].data.vals = <<>>)
              => (attempts = <<Seed>> /\ Cardinality(files) = 1)

\* C9 witness: a finished run with a failed fetch and two stored files.
TwoStoredOneFailed ==
    /\ stop = "empty"
    /\ storeFailed = {}
    /\ Cardinality(files) = 2
    /\ Len(attempts) = 3
    /\ \E p \in Range(attempts) : remote[p].kind = "notfound"

\* C10: a process that ended on a usage error or after entering the crawl
\* loop exits non-zero exactly on a usage error, and then nothing was
\* fetched; otherwise it exits 0 whatever happened per node.
ExitStatus ==
    (pc = "exited" /\ (UsageError \/ visited # {})) =>
        /\ (exit # <<0>>) <=> UsageError
        /\ UsageError => attempts = <<>>

\* The paths whose fetch ended in NotFound or TransportError.
FailedPaths == {p \in Range(attempts) : remote[p].kind \in {"notfound", "error"}}

\* The number of printed lines of the given kinds.
NumLines(kinds) == Cardinality({i \in DOMAIN out : out[i].kind \in kinds})

IsPrefix(s, t) == Len(s) <= Len(t) /\ SubSeq(t, 1, Len(s)) = s

\* C12: over the same remote and destination, the fetches of a run with
\* limit L >= 1 are an initial segment of the fetches of the run with no
\* limit, its stored files are among those of that run, and the two runs
\* fetch the same paths when the run with no limit visits at most L paths.
BudgetMonotone ==
    (run = 2 /\ pc = "exited" /\ limit = None /\ prev.limit # None /\ prev.limit[1] >= 1) =>
        /\ IsPrefix(prev.attempts, attempts)
        /\ Range(prev.attempts) \subseteq Range(attempts)
        /\ prev.files \subseteq files
        /\ Cardinality(visited) <= prev.limit[1] => attempts = prev.attempts

\* C12 witness: a run with limit 2 stopped on the limit after two fetches;
\* the run with no limit, from an empty destination, made three.
LimitedThenUnlimited ==
    /\ run = 2
    /\ stop = "empty"
    /\ limit = None
    /\ prev.limit = <<2>>
    /\ prev.stop = "limit"
    /\ prev.fresh
    /\ Len(prev.attempts) = 2
    /\ Len(attempts) = 3

\* C13: a second run with the same limit over the same remote ends with
\* the same stored file names and the same content under each name as the
\* first, from an emptied destination or from the one the first run left.
SecondRunSameFiles ==
    (run = 2 /\ pc = "exited" /\ limit = prev.limit) =>
        /\ files = prev.files
        /\ attempts = prev.attempts

\* C13 witness: a second run over the destination the first run left, in
\* which both runs stored two files.
RerunOverLeftFiles ==
    /\ run = 2
    /\ stop = "empty"
    /\ limit = prev.limit
    /\ ~prev.fresh
    /\ Cardinality(prev.files) = 2
    /\ Cardinality(files) = 2

\* A step that fetched and stored a document and went on to its references.
SavedStep == attempts' # attempts /\ pc' = "loop" /\ remote'[Head(queue)].kind = "ok"

\* What such a step appended to the queue.
AppendedPart == SubSeq(queue', Len(queue), Len(queue'))

\* u with its leading and trailing separators removed.
Trimmed(u) ==
    LET inner == {i \in DOMAIN u : u[i] # SLASH}
    IN  IF inner = {} THEN <<>>
        ELSE SubSeq(u, CHOOSE i \in inner : \A j \in inner : i <= j,
                       CHOOSE i \in inner : \A j \in inner : i >= j)

\* u begins with documentation/<module>.
BeginsWithSeed(u, module) ==
    /\ Len(u) >= 2 + Len(module)
    /\ u[1] = "documentation"
    /\ u[2] = SLASH
    /\ \A i \in DOMAIN module : u[2 + i] = module[i]

\* u begins with documentation/<module> once one leading separator, if
\* there is one, is removed.
AcceptedSeparatorOptional(u, module) ==
    BeginsWithSeed(IF u # <<>> /\ u[1] = SLASH THEN Tail(u) ELSE u, module)

\* u begins with a separator followed by documentation/<module>.
AcceptedSeparatorRequired(u, module) ==
    u # <<>> /\ u[1] = SLASH /\ BeginsWithSeed(Tail(u), module)

\* The trimmed urls of the reference values of vals that are mappings with
\* a string url that Accepted admits, in document order.
TrimmedAccepted(vals, Accepted(_, _)) ==
    LET ok == SelectSeq(vals, LAMBDA r :
                  r.isDict /\ r.url.t = "str" /\ Accepted(r.url.s, Module))
    IN  [i \in DOMAIN ok |-> Trimmed(ok[i].url.s)]

\* C14 as stated: a step that stores a document appends, trimmed of their
\* leading and trailing separators, exactly the urls that begin with
\* documentation/<module> after removal of one leading separator if there
\* is one: documentation/M/Y is followed like /documentation/M/Y.
FollowsSeparatorOptional ==
    [][SavedStep =>
          AppendedPart =
              TrimmedAccepted(remote'[Head(queue)].data.vals, AcceptedSeparatorOptional)]_vars

\* C14 amended: such a step appends, trimmed of their leading and trailing
\* separators, exactly the urls that begin with /documentation/<module>,
\* leading separator included: /documentation/M/Y/ is enqueued as
\* documentation/M/Y, and documentation/M/Y is not enqueued.
FollowsSeparatorRequired ==
    [][SavedStep =>
          AppendedPart =
              TrimmedAccepted(remote'[Head(queue)].data.vals, AcceptedSeparatorRequired)]_vars

\* C14 witness: the seed document held documentation/M/Y,
\* /documentation/M/Y/ and /documentation/M/X; Y was enqueued once, then X.
BareSkippedSlashedTrimmed ==
    /\ remote[Seed] = Ok(DocRefs(<<RefTo(UrlYBare), RefTo(UrlYSlash), RefTo(UrlX)>>))
    /\ attempts = <<Seed>>
    /\ queue = <<PathY, PathX>>

\* C15 as stated: a step appends a reference path only if the path is not
\* in the visited set at that moment.
EnqueueGuarded ==
    [][SavedStep => \A i \in DOMAIN AppendedPart : AppendedPart[i] \notin visited']_vars

\* C15 amended: a step appends every accepted reference path, visited or
\* not; an entry that is in the visited set when it is dequeued is dropped
\* with no fetch and no other effect.
DroppedAtDequeue ==
    [][/\ SavedStep =>
            Len(AppendedPart) =
                Len(TrimmedAccepted(remote'[Head(queue)].data.vals, AcceptedSeparatorRequired))
       /\ (pc = "loop" /\ queue # <<>> /\ Head(queue) \in visited) =>
            /\ queue' = Tail(queue)
            /\ UNCHANGED <<pc, visited, attempts, files, remote, exit, stop, out>>]_vars

\* C15 witness: the seed document referenced the seed; the entry was
\* appended, then dropped, and the run ended with one fetch.
SelfReferenceDropped ==
    /\ remote[Seed] = Ok(DocRefs(<<RefTo(UrlSeed)>>))
    /\ stop = "empty"
    /\ attempts = <<Seed>>

\* C17: a path enters the visited set when it is dequeued, whatever its
\* fetch gives; every path fetched, successfully or not, is in the set;
\* at most one visited path was never fetched, and then the run stopped
\* on the limit; no path leaves the set.
VisitedMarking ==
    [][/\ visited \subseteq visited'
       /\ Range(attempts') \subseteq visited'
       /\ Cardinality(visited' \ Range(attempts')) <= 1
       /\ visited' \ Range(attempts') # {} => stop' = "limit"
       /\ visited' # visited =>
            /\ queue # <<>>
            /\ visited' = visited \cup {Head(queue)}
            /\ IsPrefix(Tail(queue), queue')
       /\ attempts' # attempts => attempts' = Append(attempts, Head(queue))]_vars

\* C17 witness: limit 2; the seed was fetched, the fetch of X failed and Y
\* tripped the limit: all three are visited, Y alone was never fetched.
FailedAndTrippingVisited ==
    /\ limit = <<2>>
    /\ stop = "limit"
    /\ attempts = <<Seed, PathX>>
    /\ remote[PathX].kind = "error"
    /\ visited = {Seed, PathX, PathY}

\* C18: a step whose fetch fails removes the path from the head of the
\* queue and adds it to the visited set, and changes neither the rest of
\* the queue nor the files nor the course of the run; and no step fetches
\* a path whose fetch has failed before.
FailedFetchFrame ==
    [][/\ (attempts' # attempts /\ remote'[Head(queue)].kind \in {"notfound", "error"}) =>
            /\ queue' = Tail(queue)
            /\ visited' = visited \cup {Head(queue)}
            /\ files' = files
            /\ UNCHANGED <<pc, exit, stop, limit, argv, storeFailed, disk>>
       /\ attempts' # attempts => attempts'[Len(attempts')] \notin FailedPaths]_vars

\* C18 witness: the fetch of X failed; Y, fetched afterwards, referenced X
\* again, and the run ended without another fetch of X.
FailedNotRetried ==
    /\ stop = "empty"
    /\ attempts = <<Seed, PathX, PathY>>
    /\ remote[PathX].kind = "notfound"
    /\ remote[PathY] = Ok(DocRefs(<<RefTo(UrlX)>>))

\* The references the crawl follows out of the document fetched for p, as
\* topic paths in document order.
FollowedRefs(p) ==
    IF remote[p].kind = "ok"
    THEN TrimmedAccepted(remote[p].data.vals, AcceptedSeparatorRequired)
    ELSE <<>>

\* seq followed by the entries of more that are not yet in it, each once.
RECURSIVE WithNew(_, _)
WithNew(seq, more) ==
    IF more = <<>> THEN seq
    ELSE WithNew(IF Head(more) \in Range(seq) THEN seq ELSE Append(seq, Head(more)),
                 Tail(more))

\* The paths in the order of their first discovery, after the first k
\* fetches: the seed, then what each fetched document first referenced.
RECURSIVE Discovered(_)
Discovered(k) ==
    IF k = 0 THEN <<Seed>> ELSE WithNew(Discovered(k - 1), FollowedRefs(attempts[k]))

\* The depth of a path: the length of the shortest chain of followed
\* references from the seed to it; more than any chain if there is none.
NoDepth == Cardinality(AllPaths) + 1
RECURSIVE DepthFrom(_, _, _, _)
DepthFrom(layer, seen, d, target) ==
    IF target \in layer THEN d
    ELSE IF layer = {} THEN NoDepth
    ELSE DepthFrom((UNION {Range(FollowedRefs(p)) : p \in layer}) \ (seen \cup layer),
                   seen \cup layer, d + 1, target)
Depth(p) == DepthFrom({Seed}, {}, 0, p)

\* The place of a fetched path among the fetches; of an entry in a sequence.
Pos(p) == CHOOSE i \in DOMAIN attempts : attempts[i] = p
FirstIn(seq, x) == CHOOSE i \in DOMAIN seq : seq[i] = x /\ \A j \in 1..(i - 1) : seq[j] # x

\* The fetches are in non-decreasing order of depth.
DepthOrdered ==
    \A i, j \in DOMAIN attempts : i < j => Depth(attempts[i]) <= Depth(attempts[j])

\* The fetches are the first paths discovered, in the order of discovery.
DiscoveryOrdered == IsPrefix(attempts, Discovered(Len(attempts)))

\* C16 as stated: in a run with no limit the fetches are in non-decreasing
\* order of depth and in the order of first discovery, and the references
\* of one document (those fetched after it) are fetched in the order in
\* which they appear in it.
BreadthFirstAsStated ==
    limit = None =>
        /\ DepthOrdered
        /\ DiscoveryOrdered
        /\ \A k \in DOMAIN attempts :
             LET refs == FollowedRefs(attempts[k])
                 later == {a \in Range(refs) : a \in Range(attempts) /\ Pos(a) > k}
             IN  \A a, b \in later : FirstIn(refs, a) < FirstIn(refs, b) => Pos(a) < Pos(b)

\* C16 amended: in a run with no limit the fetches are in non-decreasing
\* order of depth and in the order of first discovery, and the references
\* that one document is the first to discover are fetched in the order in
\* which they appear in it.
BreadthFirst ==
    limit = None =>
        /\ DepthOrdered
        /\ DiscoveryOrdered
        /\ \A k \in DOMAIN attempts :
             LET refs == FollowedRefs(attempts[k])
                 new == {a \in Range(refs) :
                           a \in Range(attempts) /\ a \notin Range(Discovered(k - 1))}
             IN  \A a, b \in new : FirstIn(refs, a) < FirstIn(refs, b) => Pos(a) < Pos(b)

\* C16 witness: the seed referenced X and Y, X referenced Z and Y; Y,
\* discovered first, was fetched before Z although X names Z first.
EarlierDiscoveredFirst ==
    /\ limit = None
    /\ stop = "empty"
    /\ remote[Seed] = Ok(DocRefs(<<RefTo(UrlX), RefTo(UrlYSlash)>>))
    /\ remote[PathX] = Ok(DocRefs(<<RefTo(UrlZ), RefTo(UrlYSlash)>>))
    /\ attempts = <<Seed, PathX, PathY, PathZ>>

\* The names of the raw directory that start with target less its .json
\* suffix; none if the directory is absent.
PrefixMatches(target) ==
    IF ~rawDir.exists THEN {}
    ELSE {n \in rawDir.names :
            \E k \in 0..Len(n) : SubSeq(n, 1, k) \o DotJson = target}

\* C19: for each name listed, the exact name is copied if the raw
\* directory holds it; otherwise a shortest raw name that starts with the
\* name less its .json suffix is copied; otherwise the name is reported
\* missing.  Each listed name is counted once, as copied or as missing, so
\* on return copied + len(missing) is the number of distinct listed names.
SyncLookup ==
    /\ \A i \in DOMAIN log :
          LET e == log[i]
          IN  /\ e.name \in readme.names
              /\ \A j \in DOMAIN log : log[j].name = e.name => j = i
              /\ IF rawDir.exists /\ e.name \in rawDir.names
                 THEN e.copied = e.name /\ e.missing = None
                 ELSE IF PrefixMatches(e.name) # {}
                 THEN /\ e.copied \in PrefixMatches(e.name)
                      /\ \A c \in PrefixMatches(e.name) : Len(e.copied) <= Len(c)
                      /\ e.missing = None
                 ELSE e.copied = None /\ e.missing = e.name
              /\ e.copied # None => e.copied \in destDir
    /\ copied = Cardinality({i \in DOMAIN log : log[i].copied # None})
    /\ missing = SelectSeq([i \in DOMAIN log |-> log[i].missing], LAMBDA x : x # None)
    /\ (sPc = "returned" /\ readme.exists /\ readme.names # {}) =>
          /\ result = <<copied, missing>>
          /\ {log[i].name : i \in DOMAIN log} = readme.names
          /\ copied + Len(missing) = Cardinality(readme.names)

\* C19 witness: a.json, ab.json and c.json are listed and the raw
\* directory holds a, ab.json and ac.json: a is copied for a.json (the
\* shortest match), ab.json for itself, and c.json is missing.
ShortestCopiedOneMissing ==
    /\ sPc = "returned"
    /\ rawDir = [exists |-> TRUE, names |-> {NameBare, NameAB, NameAC}]
    /\ result = <<2, <<NameC>>>>
    /\ \E i \in DOMAIN log : log[i].name = NameA /\ log[i].copied = NameBare
    /\ \E i \in DOMAIN log : log[i].name = NameAB /\ log[i].copied = NameAB

====
